---- MODULE Spec2Model ----
(***************************************************************************)
(* Model of the plugin-provisioning core of mise:                          *)
(*   src/src/plugins/asdf_plugin.rs  (AsdfPlugin lifecycle, trust gate)    *)
(*   src/src/forge/vfox.rs           (VfoxForge remote-version cache)      *)
(*                                                                         *)
(* Strings are sequences of tokens; a token is an indivisible piece of     *)
(* text ("https://", "github.com", "/", ".git", a path segment).  String   *)
(* concatenation is \o, the empty string is << >>.                         *)
(***************************************************************************)
EXTENDS Integers, Sequences, FiniteSets, TLC

VARIABLES
    name,       \* AsdfPlugin.name: the plugin all processes operate on
    remote,     \* trust evaluation: the candidate remote handed to is_trusted_plugin
    verdict,    \* trust evaluation: what is_trusted_plugin produced
    dir,        \* the plugin directory dirs::PLUGINS/name on disk
    lock,       \* holder of the per-directory lock file (NoProc when free)
    pc,         \* position of each process inside the call it is running
    call,       \* the call each process is running / has last run, with its inputs
    result,     \* what the last call of each process returned
    trace,      \* side effects the current call has performed, in order
    refs,       \* update: the (pre, post) references git.update returned
    hookArgs,   \* update: the (pre, post) references handed to the hook
    available,  \* scripting engine: the list list_available_versions delivers
    disk,       \* version cache: persisted entry per key
    cpc,        \* version cache: position of each caller
    ckey,       \* version cache: key each caller asked for
    cres,       \* version cache: what each caller's call returned
    identifier, \* identity resolution: the string handed to vfox_to_url
    resolved    \* identity resolution: what vfox_to_url produced

vars == <<name, remote, verdict, dir, lock, pc, call, result, trace, refs,
          hookArgs, available, disk, cpc, ckey, cres, identifier, resolved>>

trustVars  == <<remote, verdict>>
pluginVars == <<dir, lock, pc, call, result, trace, refs, hookArgs>>
cacheVars  == <<available, disk, cpc, ckey, cres>>
resolverVars == <<identifier, resolved>>

(***************************************************************************)
(* Bounds of the model.                                                    *)
(***************************************************************************)
MaxSegs     == 2    \* path segments of a candidate remote
MaxSuffix   == 2    \* trailing ".git" / "/" tokens of a candidate remote
NumCallers  == 3    \* concurrent callers of the version cache
MaxVersions == 2    \* length of the list the scripting engine delivers
MaxIdentLen == 3    \* tokens of an identifier after its scheme and host

(***************************************************************************)
(* Strings and URLs.                                                       *)
(***************************************************************************)
HTTPS   == "https://"      \* a scheme with an authority (host) part
MAILTO  == "mailto:"       \* a scheme without authority: the URL has no host
SLASH   == "/"
DOTGIT  == ".git"
Schemes == {HTTPS, MAILTO}
Hosts   == {"github.com", "example.org"}
Segs    == {"mise-plugins", "community", "tool"}

RECURSIVE HostLen(_)
\* number of leading tokens of s that belong to the authority (up to the first "/")
HostLen(s) ==
    IF s = << >> \/ Head(s) = SLASH THEN 0 ELSE 1 + HostLen(Tail(s))

Drop(s, n) == SubSeq(s, n + 1, Len(s))

RECURSIVE SkipSlashes(_)
\* a special scheme ignores any further "/" before the authority
SkipSlashes(s) ==
    IF s # << >> /\ Head(s) = SLASH THEN SkipSlashes(Tail(s)) ELSE s

\* url::Url::parse on a token string: [ok, scheme, hasHost, host, path]
UrlParse(s) ==
    LET bad == [ok |-> FALSE, scheme |-> "", hasHost |-> FALSE, host |-> << >>,
                path |-> << >>]
    IN  IF s = << >> THEN bad                       \* empty input
        ELSE IF Head(s) = MAILTO
             THEN [ok |-> TRUE, scheme |-> MAILTO, hasHost |-> FALSE,
                   host |-> << >>, path |-> Tail(s)]
        ELSE IF Head(s) = HTTPS
             THEN LET rest == SkipSlashes(Tail(s))
                      n    == HostLen(rest)
                      h    == SubSeq(rest, 1, n)
                      p    == Drop(rest, n)
                  IN  IF n = 0 \/ \E i \in 1..n : h[i] \in Schemes
                      THEN bad                      \* empty or invalid host
                      ELSE [ok |-> TRUE, scheme |-> HTTPS, hasHost |-> TRUE,
                            host |-> h,
                            path |-> IF p = << >> THEN <<SLASH>> ELSE p]
        ELSE bad                                    \* relative URL without a base

RECURSIVE TrimEndMatches(_, _)
\* str::trim_end_matches(pat) for a one-token pattern: strips every trailing repeat
TrimEndMatches(s, tok) ==
    IF s # << >> /\ s[Len(s)] = tok
    THEN TrimEndMatches(SubSeq(s, 1, Len(s) - 1), tok)
    ELSE s

StartsWith(s, pre) ==
    Len(s) >= Len(pre) /\ SubSeq(s, 1, Len(pre)) = pre

(***************************************************************************)
(* asdf_plugin.rs: normalize_remote and is_trusted_plugin.                 *)
(***************************************************************************)
\* kind "Ok": the string host+path; "Err": Url::parse failed (the ? operator);
\* "Panic": host_str() was None and unwrap() panicked
normalize_remote(r) ==
    LET url == UrlParse(r)
    IN  IF ~url.ok THEN [kind |-> "Err", val |-> << >>]
        ELSE IF ~url.hasHost THEN [kind |-> "Panic", val |-> << >>]
        ELSE [kind |-> "Ok", val |-> url.host \o TrimEndMatches(url.path, DOTGIT)]

INVALID_URL == <<"INVALID_URL">>
MISE_PREFIX == <<"github.com", SLASH, "mise-plugins", SLASH>>

GitHub(owner, repo) == <<HTTPS, "github.com", SLASH, owner, SLASH, repo, DOTGIT>>

\* crate::default_shorthands::DEFAULT_SHORTHANDS: name -> canonical remote
DEFAULT_SHORTHANDS ==
    [n \in {"python", "poetry", "awscli", "broken"} |->
        CASE n = "python" -> GitHub("mise-plugins", "tool")
          [] n = "poetry" -> GitHub("community", "tool")
          [] n = "awscli" -> GitHub("community", "tool")
          [] n = "broken" -> <<"community", SLASH, "tool">>]

\* crate::default_shorthands::TRUSTED_SHORTHANDS
TRUSTED_SHORTHANDS == {"awscli"}

Names == {"python", "poetry", "awscli", "broken", "nodejs"}

\* is_trusted_plugin with the negation of is_shorthand dropped
is_trusted_plugin_no_negation(n, r) ==
    LET cand == normalize_remote(r)
        normalized_url == IF cand.kind = "Ok" THEN cand.val ELSE INVALID_URL
        found == n \in DOMAIN DEFAULT_SHORTHANDS
        entry == IF found THEN normalize_remote(DEFAULT_SHORTHANDS[n])
                          ELSE [kind |-> "Err", val |-> << >>]
        is_shorthand == found /\ entry.val = normalized_url
        is_mise_url == StartsWith(normalized_url, MISE_PREFIX)
    IN  IF cand.kind = "Panic" \/ entry.kind = "Panic"
        THEN [panicked |-> TRUE, ret |-> FALSE]
        ELSE [panicked |-> FALSE,
              ret |-> is_shorthand \/ is_mise_url \/ n \in TRUSTED_SHORTHANDS]

\* [panicked, ret]: ret is the returned bool; panicked when normalize_remote panicked
is_trusted_plugin(n, r) ==
    LET cand == normalize_remote(r)
        \* .unwrap_or("INVALID_URL".into())
        normalized_url == IF cand.kind = "Ok" THEN cand.val ELSE INVALID_URL
        found == n \in DOMAIN DEFAULT_SHORTHANDS
        \* evaluated only inside is_some_and; .unwrap_or_default() gives ""
        entry == IF found THEN normalize_remote(DEFAULT_SHORTHANDS[n])
                          ELSE [kind |-> "Err", val |-> << >>]
        is_shorthand == found /\ entry.val = normalized_url
        is_mise_url == StartsWith(normalized_url, MISE_PREFIX)
    IN  IF cand.kind = "Panic" \/ entry.kind = "Panic"
        THEN [panicked |-> TRUE, ret |-> FALSE]
        ELSE [panicked |-> FALSE,
              ret |-> ~is_shorthand \/ is_mise_url \/ n \in TRUSTED_SHORTHANDS]

(***************************************************************************)
(* Candidate remotes for the trust evaluation.                             *)
(***************************************************************************)
RECURSIVE PathsOf(_)
\* paths of exactly n segments: "/" seg "/" seg ...
PathsOf(n) ==
    IF n = 0 THEN {<< >>}
    ELSE {p \o <<SLASH, s>> : p \in PathsOf(n - 1), s \in Segs}

RECURSIVE SuffixesOf(_)
SuffixesOf(n) ==
    IF n = 0 THEN {<< >>}
    ELSE {s \o <<t>> : s \in SuffixesOf(n - 1), t \in {DOTGIT, SLASH}}

Prefixes ==
    {<< >>, <<MAILTO>>, <<HTTPS>>} \cup {<<HTTPS, h>> : h \in Hosts}

Candidates ==
    {pre \o p \o suf :
        pre \in Prefixes,
        p   \in UNION {PathsOf(i) : i \in 0..MaxSegs},
        suf \in UNION {SuffixesOf(i) : i \in 0..MaxSuffix}}

NotEvaluated == [panicked |-> FALSE, ret |-> FALSE, done |-> FALSE]

(***************************************************************************)
(* asdf_plugin.rs: the plugin directory, the lock and the processes.       *)
(***************************************************************************)
Procs    == {"p1", "p2"}
NoProc   == "free"
DirKinds == {"absent", "repo", "symlink", "plain"}
Refs     == {"sha1", "sha2"}
NoRefs   == << >>
Answers  == {"yes", "no", "error"}

NoCall == [op |-> "none", force |-> FALSE, yes |-> FALSE, paranoid |-> FALSE,
           repo_url |-> FALSE]
EnsureCalls ==
    [op : {"ensure_installed"}, force : BOOLEAN, yes : BOOLEAN,
     paranoid : BOOLEAN, repo_url : BOOLEAN]
UninstallCall == [NoCall EXCEPT !.op = "uninstall"]
UpdateCall    == [NoCall EXCEPT !.op = "update"]

Ready(p) == pc[p] \in {"idle", "done"}

Outcome(to, res, tr) == [pc |-> to, result |-> res, trace |-> tr]

\* Git::exists on the plugin directory
is_installed(d) == d # "absent"

\* Path::is_symlink on the plugin directory
is_symlink(d) == d = "symlink"

\* Git::is_repo on the plugin directory
is_repo(d) == d = "repo"

\* AsdfPlugin::get_repo_url(...).unwrap_or_default(): the registered remote of
\* the plugin, "" when there is none
get_repo_url(n) ==
    IF n \in DOMAIN DEFAULT_SHORTHANDS THEN DEFAULT_SHORTHANDS[n] ELSE << >>

\* early_return that never returns early
early_return_never(c, d) == FALSE

\* ensure_installed: `if !force { if self.is_installed() { return Ok(()) } ... }`
early_return(c, d) == ~c.force /\ is_installed(d)

\* ensure_installed: the condition under which the trust gate is consulted
needs_trust_check(c) == ~c.force /\ ~c.yes /\ ~c.repo_url

\* untrusted_outcome that prompts even in paranoid mode
untrusted_outcome_prompts(c) == Outcome("prompt", "Pending", <<"warn", "prompt">>)

\* ensure_installed, plugin judged untrusted: the warnings, then the paranoid
\* refusal, else the confirmation prompt is issued
untrusted_outcome(c) ==
    IF c.paranoid
    THEN Outcome("done", "Refused", <<"warn">>)
    ELSE Outcome("prompt", "Pending", <<"warn", "prompt">>)

\* prompt_outcome that goes on to install after a decline
prompt_outcome_ignored(ans) ==
    CASE ans = "yes"   -> Outcome("lock", "Pending", <<"confirmed">>)
      [] ans = "no"    -> Outcome("lock", "Pending", <<"declined">>)
      [] ans = "error" -> Outcome("done", "PromptError", << >>)

\* ensure_installed: what follows prompt::confirm_with_all(...)?
prompt_outcome(ans) ==
    CASE ans = "yes"   -> Outcome("lock", "Pending", <<"confirmed">>)
      [] ans = "no"    -> Outcome("done", "PluginNotInstalled", <<"declined">>)
      [] ans = "error" -> Outcome("done", "PromptError", << >>)

\* ensure_installed up to the lock: where the call goes from its entry
ensure_installed_entry(c, n, d) ==
    IF early_return(c, d) THEN Outcome("done", "Ok", << >>)
    ELSE IF ~needs_trust_check(c) THEN Outcome("lock", "Pending", << >>)
    ELSE LET t == is_trusted_plugin(n, get_repo_url(n))
         IN  IF t.panicked THEN Outcome("done", "Panic", << >>)
             ELSE IF ~t.ret THEN untrusted_outcome(c)
             ELSE Outcome("lock", "Pending", << >>)

\* the lock guard leaked: the lock file stays locked after the call
drop_lock_leaked(p, l) == l

\* `let _lock = ...` going out of scope when ensure_installed returns
drop_lock(p, l) == IF l = p THEN NoProc ELSE l

Begin(p, c, o) ==
    /\ pc' = [pc EXCEPT ![p] = o.pc]
    /\ call' = [call EXCEPT ![p] = c]
    /\ result' = [result EXCEPT ![p] = o.result]
    /\ trace' = [trace EXCEPT ![p] = o.trace]
    /\ refs' = [refs EXCEPT ![p] = NoRefs]
    /\ hookArgs' = [hookArgs EXCEPT ![p] = NoRefs]

Step(p, to, res, events) ==
    /\ pc' = [pc EXCEPT ![p] = to]
    /\ result' = [result EXCEPT ![p] = res]
    /\ trace' = [trace EXCEPT ![p] = trace[p] \o events]
    /\ UNCHANGED call

\* lock_before_gate that takes a free lock on entry, ahead of the trust gate
lock_before_gate_taken(p, l) == IF l = NoProc THEN p ELSE l

\* ensure_installed, lines 80-106: nothing locks before line 109
lock_before_gate(p, l) == l

\* ensure_installed, lines 80-106, called with loaded settings (yes, paranoid)
EnsureInstalled(p) ==
    /\ Ready(p)
    /\ \E c \in EnsureCalls : Begin(p, c, ensure_installed_entry(c, name, dir))
    /\ lock' = lock_before_gate(p, lock)
    /\ dir' = dir

\* ensure_installed, lines 98-103: the user answers the pending prompt
PromptAnswer(p) ==
    /\ pc[p] = "prompt"
    /\ \E ans \in Answers :
         LET o == prompt_outcome(ans) IN Step(p, o.pc, o.result, o.trace)
    /\ UNCHANGED <<dir, lock, refs, hookArgs>>

\* ensure_installed, line 109: self.get_lock(...)? blocks until the lock is free
GetLock(p) ==
    /\ pc[p] = "lock"
    /\ lock = NoProc
    /\ lock' = p
    /\ Step(p, "install", "Pending", <<"lock", "install">>)
    /\ UNCHANGED <<dir, refs, hookArgs>>

\* ensure_installed, line 109: get_lock fails and the ? returns the error
GetLockFails(p) ==
    /\ pc[p] = "lock"
    /\ Step(p, "done", "LockError", << >>)
    /\ UNCHANGED <<dir, lock, refs, hookArgs>>

\* ensure_installed, lines 110-111: self.install(...) returns, the guard drops
InstallReturns(p) ==
    /\ pc[p] = "install"
    /\ \E ok \in BOOLEAN :
         IF ok
         THEN dir' = "repo" /\ Step(p, "done", "Ok", << >>)
         ELSE dir' \in {dir, "absent"} /\ Step(p, "done", "InstallError", << >>)
    /\ lock' = drop_lock(p, lock)
    /\ UNCHANGED <<refs, hookArgs>>

\* uninstall_entry without the is_installed check
uninstall_entry_unchecked(d) == Outcome("un_hook", "Pending", << >>)

\* uninstall_entry that goes straight to the removal, the hook left out
uninstall_entry_skips_hook(d) ==
    IF ~is_installed(d) THEN Outcome("done", "Ok", << >>)
    ELSE Outcome("un_rmdir", "Pending", << >>)

\* uninstall, lines 113-117: not installed is a no-op, else on to the hook
uninstall_entry(d) ==
    IF ~is_installed(d) THEN Outcome("done", "Ok", << >>)
    ELSE Outcome("un_hook", "Pending", << >>)

\* uninstall, lines 113-116
Uninstall(p) ==
    /\ Ready(p)
    /\ Begin(p, UninstallCall, uninstall_entry(dir))
    /\ UNCHANGED <<dir, lock>>

\* uninstall, line 117: self.exec_hook(pr, "pre-plugin-remove")?
UninstallHook(p) ==
    /\ pc[p] = "un_hook"
    /\ \E ok \in BOOLEAN :
         IF ok THEN Step(p, "un_rmdir", "Pending", <<"hook">>)
         ELSE Step(p, "done", "HookError", <<"hook">>)
    /\ UNCHANGED <<dir, lock, refs, hookArgs>>

\* uninstall, lines 120-124 and 133: rmdir finds the directory gone, or starts
\* remove_all on it
UninstallRmdir(p) ==
    /\ pc[p] = "un_rmdir"
    /\ IF dir = "absent" THEN Step(p, "done", "Ok", << >>)
       ELSE Step(p, "un_removing", "Pending", <<"remove">>)
    /\ UNCHANGED <<dir, lock, refs, hookArgs>>

\* uninstall, lines 125-135: remove_all returns
UninstallRemoved(p) ==
    /\ pc[p] = "un_removing"
    /\ \E ok \in BOOLEAN :
         IF ok
         THEN dir' = "absent" /\ Step(p, "done", "Ok", << >>)
         ELSE dir' = dir /\ Step(p, "done", "RemovalError", << >>)
    /\ UNCHANGED <<lock, refs, hookArgs>>

\* update_entry without the symlink and repository checks
update_entry_unchecked(d) == Outcome("up_git", "Pending", << >>)

\* update, lines 139-154: the two no-op cases, else on to git.update
update_entry(d) ==
    IF is_symlink(d) THEN Outcome("done", "Ok", <<"warn">>)
    ELSE IF ~is_repo(d) THEN Outcome("done", "Ok", <<"warn">>)
    ELSE Outcome("up_git", "Pending", << >>)

\* update, lines 138-154
Update(p) ==
    /\ Ready(p)
    /\ Begin(p, UpdateCall, update_entry(dir))
    /\ UNCHANGED <<dir, lock>>

\* update, lines 155-156: git.update(gitref)? returns (pre, post) or fails
UpdateGit(p) ==
    /\ pc[p] = "up_git"
    /\ \/ /\ is_repo(dir)
          /\ \E pre \in Refs, post \in Refs :
               refs' = [refs EXCEPT ![p] = <<pre, post>>]
          /\ Step(p, "up_hook", "Pending", <<"git">>)
       \/ /\ refs' = refs
          /\ Step(p, "done", "GitError", <<"git">>)
    /\ UNCHANGED <<dir, lock, hookArgs>>

\* post_plugin_update_args with pre and post exchanged
post_plugin_update_args_swapped(r) == <<r[2], r[1]>>

\* update, lines 156-159: the (pre, post) of git.update go to
\* exec_hook_post_plugin_update in that order
post_plugin_update_args(r) == <<r[1], r[2]>>

\* update, lines 157-165: current_sha_short()?, then the post-plugin-update hook
UpdateHook(p) ==
    /\ pc[p] = "up_hook"
    /\ \/ /\ hookArgs' = hookArgs
          /\ Step(p, "done", "ShaError", << >>)
       \/ /\ hookArgs' = [hookArgs EXCEPT ![p] = post_plugin_update_args(refs[p])]
          /\ \E ok \in BOOLEAN :
               Step(p, "done", IF ok THEN "Ok" ELSE "HookError", <<"hook">>)
    /\ UNCHANGED <<dir, lock, refs>>

(***************************************************************************)
(* vfox.rs: _list_remote_versions and the remote-version cache.            *)
(***************************************************************************)
Callers  == 1..NumCallers
Keys     == {"k1", "k2"}
Versions == {"1.0", "2.0"}

RECURSIVE SeqsOf(_, _)
\* the sequences over S of length exactly n
SeqsOf(S, n) ==
    IF n = 0 THEN {<< >>} ELSE {s \o <<x>> : s \in SeqsOf(S, n - 1), x \in S}

EngineLists == UNION {SeqsOf(Versions, i) : i \in 0..MaxVersions}

Reverse(s) == [i \in 1..Len(s) |-> s[Len(s) + 1 - i]]

NoEntry  == [present |-> FALSE, value |-> << >>]
Entry(v) == [present |-> TRUE, value |-> v]
NoResult == [kind |-> "none", value |-> << >>]
Ok(v)    == [kind |-> "Ok", value |-> v]
Failure  == [kind |-> "Err", value |-> << >>]

\* list_remote_versions_compute with the .rev() left out
list_remote_versions_compute_unreversed(engineOk, versions) ==
    IF engineOk THEN Ok(versions) ELSE Failure

\* the closure handed to get_or_try_init: the engine's list reversed, or the
\* failure of get_url / install_plugin_from_url / runtime / list_available_versions
list_remote_versions_compute(engineOk, versions) ==
    IF engineOk THEN Ok(Reverse(versions)) ELSE Failure

Computing(k) == {c \in Callers : cpc[c] = "computing" /\ ckey[c] = k}
Waiting(k)   == {c \in Callers : cpc[c] = "waiting" /\ ckey[c] = k}

\* get_or_init_entry that never coalesces with a computation in flight
get_or_init_entry_no_coalescing(entry, inFlight) ==
    IF entry.present THEN "hit" ELSE "compute"

\* CacheManager::get_or_try_init, on entry: a valid persisted entry is returned,
\* a computation in flight for the key is joined, else the caller computes
get_or_init_entry(entry, inFlight) ==
    IF entry.present THEN "hit"
    ELSE IF inFlight THEN "wait"
    ELSE "compute"

\* persist_after that also stores an (empty) entry when compute failed
persist_after_always(old, r, writeOk) ==
    IF writeOk THEN Entry(r.value) ELSE old

\* CacheManager::get_or_try_init, after compute: a success is persisted (a
\* failed write is only logged), a failure persists nothing
persist_after(old, r, writeOk) ==
    IF r.kind = "Ok" /\ writeOk THEN Entry(r.value) ELSE old

\* _list_remote_versions, lines 33-35 and 46: the call enters get_or_try_init
ListRemoteVersions(c) ==
    /\ cpc[c] \in {"idle", "done"}
    /\ \E k \in Keys :
         LET way == get_or_init_entry(disk[k], Computing(k) # {})
         IN  /\ ckey' = [ckey EXCEPT ![c] = k]
             /\ cpc' = [cpc EXCEPT ![c] =
                    CASE way = "hit" -> "done"
                      [] way = "wait" -> "waiting"
                      [] way = "compute" -> "computing"]
             /\ cres' = [cres EXCEPT ![c] =
                    IF way = "hit" THEN Ok(disk[k].value) ELSE NoResult]
    /\ UNCHANGED <<available, disk>>

\* _list_remote_versions, lines 35-45: the closure returns; get_or_try_init
\* persists a success and hands the result to the caller and to every caller
\* that waited on the same key
ComputeReturns(c) ==
    /\ cpc[c] = "computing"
    /\ \E engineOk \in BOOLEAN, writeOk \in BOOLEAN :
         LET k == ckey[c]
             r == list_remote_versions_compute(engineOk, available)
             served == {c} \cup Waiting(k)
         IN  /\ disk' = [disk EXCEPT ![k] = persist_after(disk[k], r, writeOk)]
             /\ cpc' = [x \in Callers |-> IF x \in served THEN "done" ELSE cpc[x]]
             /\ cres' = [x \in Callers |-> IF x \in served THEN r ELSE cres[x]]
    /\ UNCHANGED <<available, ckey>>

\* the persisted entry of a key expires (or its file is removed)
Expire(k) ==
    /\ disk[k].present
    /\ disk' = [disk EXCEPT ![k] = NoEntry]
    /\ UNCHANGED <<available, cpc, ckey, cres>>

(***************************************************************************)
(* vfox.rs: vfox_to_url.                                                   *)
(***************************************************************************)
NoUrl == UrlParse(<< >>)
NotResolved == [kind |-> "none", url |-> NoUrl, msg |-> << >>]

\* tokens that contain the character '/'
SlashTokens == {SLASH, HTTPS}

NoCaptures == [matched |-> FALSE, user |-> << >>, repo |-> << >>]

\* the pattern with * in place of +: empty segments are accepted
RegexCapturesEmptySegments(s) ==
    LET pos == {i \in 1..Len(s) : s[i] = SLASH}
    IN  IF (\A i \in 1..Len(s) : s[i] # HTTPS) /\ Cardinality(pos) = 1
        THEN LET i == CHOOSE j \in pos : TRUE
             IN  [matched |-> TRUE, user |-> SubSeq(s, 1, i - 1),
                  repo |-> SubSeq(s, i + 1, Len(s))]
        ELSE NoCaptures

\* regex!(r#"^([^/]+)/([^/]+)$"#).captures(version): the whole string is one
\* non-empty run without '/', one '/', one non-empty run without '/'
RegexCaptures(s) ==
    LET pos == {i \in 1..Len(s) : s[i] = SLASH}
    IN  IF /\ \A i \in 1..Len(s) : s[i] # HTTPS
           /\ Cardinality(pos) = 1
           /\ \A i \in pos : 1 < i /\ i < Len(s)
        THEN LET i == CHOOSE j \in pos : TRUE
             IN  [matched |-> TRUE, user |-> SubSeq(s, 1, i - 1),
                  repo |-> SubSeq(s, i + 1, Len(s))]
        ELSE NoCaptures

\* [kind, url, msg]: Ok(url), or Err with the message carrying the input
vfox_to_url(version) ==
    LET caps == RegexCaptures(version)
        res  == IF caps.matched
                THEN UrlParse(<<HTTPS, "github.com", SLASH>> \o caps.user
                              \o <<SLASH>> \o caps.repo)
                ELSE UrlParse(version)
    IN  IF res.ok THEN [kind |-> "Ok", url |-> res, msg |-> << >>]
        ELSE [kind |-> "Err", url |-> NoUrl, msg |-> version]

\* the strings handed to vfox_to_url: an optional scheme and host, then up
\* to MaxIdentLen tokens
Identifiers ==
    {pre \o body :
        pre \in Prefixes,
        body \in UNION {SeqsOf(Segs \cup {SLASH}, i) : i \in 0..MaxIdentLen}}

(***************************************************************************)
(* Specifications.                                                         *)
(***************************************************************************)
TrustIdle ==
    /\ remote = << >>
    /\ verdict = NotEvaluated

PluginIdle ==
    /\ lock = NoProc
    /\ pc = [p \in Procs |-> "idle"]
    /\ call = [p \in Procs |-> NoCall]
    /\ result = [p \in Procs |-> "none"]
    /\ trace = [p \in Procs |-> << >>]
    /\ refs = [p \in Procs |-> NoRefs]
    /\ hookArgs = [p \in Procs |-> NoRefs]

ResolverIdle ==
    /\ identifier = << >>
    /\ resolved = NotResolved

CacheIdle ==
    /\ disk = [k \in Keys |-> NoEntry]
    /\ cpc = [c \in Callers |-> "idle"]
    /\ ckey = [c \in Callers |-> "k1"]
    /\ cres = [c \in Callers |-> NoResult]

\* The plugin lifecycle: processes (separate invocations of the tool) calling
\* ensure_installed, uninstall and update on one plugin directory.
Init ==
    /\ name \in Names
    /\ dir \in DirKinds
    /\ PluginIdle
    /\ TrustIdle
    /\ available = << >>
    /\ CacheIdle
    /\ ResolverIdle

Next ==
    \E p \in Procs :
        \/ EnsureInstalled(p) /\ UNCHANGED <<name, trustVars, cacheVars, resolverVars>>
        \/ PromptAnswer(p) /\ UNCHANGED <<name, trustVars, cacheVars, resolverVars>>
        \/ GetLock(p) /\ UNCHANGED <<name, trustVars, cacheVars, resolverVars>>
        \/ GetLockFails(p) /\ UNCHANGED <<name, trustVars, cacheVars, resolverVars>>
        \/ InstallReturns(p) /\ UNCHANGED <<name, trustVars, cacheVars, resolverVars>>
        \/ Uninstall(p) /\ UNCHANGED <<name, trustVars, cacheVars, resolverVars>>
        \/ UninstallHook(p) /\ UNCHANGED <<name, trustVars, cacheVars, resolverVars>>
        \/ UninstallRmdir(p) /\ UNCHANGED <<name, trustVars, cacheVars, resolverVars>>
        \/ UninstallRemoved(p) /\ UNCHANGED <<name, trustVars, cacheVars, resolverVars>>
        \/ Update(p) /\ UNCHANGED <<name, trustVars, cacheVars, resolverVars>>
        \/ UpdateGit(p) /\ UNCHANGED <<name, trustVars, cacheVars, resolverVars>>
        \/ UpdateHook(p) /\ UNCHANGED <<name, trustVars, cacheVars, resolverVars>>

Spec == Init /\ [][Next]_vars

\* Every call that has started runs on: the prompt is answered, a free lock
\* is taken, install / hook / remove_all / git return.
Progress ==
    \A p \in Procs :
        /\ WF_vars(PromptAnswer(p) /\ UNCHANGED <<name, trustVars, cacheVars, resolverVars>>)
        /\ WF_vars(GetLock(p) /\ UNCHANGED <<name, trustVars, cacheVars, resolverVars>>)
        /\ WF_vars(InstallReturns(p) /\ UNCHANGED <<name, trustVars, cacheVars, resolverVars>>)

FairSpec == Spec /\ Progress

\* The trust evaluation as a function of the plugin name and the candidate remote.
TrustInit ==
    /\ name \in Names
    /\ remote \in Candidates
    /\ verdict = NotEvaluated
    /\ dir = "absent"
    /\ PluginIdle
    /\ available = << >>
    /\ CacheIdle
    /\ ResolverIdle

Evaluate ==
    /\ ~verdict.done
    /\ verdict' = [panicked |-> is_trusted_plugin(name, remote).panicked,
                   ret |-> is_trusted_plugin(name, remote).ret,
                   done |-> TRUE]
    /\ UNCHANGED <<name, remote, pluginVars, cacheVars, resolverVars>>

TrustNext == Evaluate

TrustSpec == TrustInit /\ [][TrustNext]_vars

\* The remote-version cache of one process: callers of _list_remote_versions.
CacheInit ==
    /\ name = "nodejs"
    /\ dir = "absent"
    /\ PluginIdle
    /\ TrustIdle
    /\ available \in EngineLists
    /\ CacheIdle
    /\ ResolverIdle

CacheNext ==
    \/ \E c \in Callers :
          \/ ListRemoteVersions(c) /\ UNCHANGED <<name, trustVars, pluginVars, resolverVars>>
          \/ ComputeReturns(c) /\ UNCHANGED <<name, trustVars, pluginVars, resolverVars>>
    \/ \E k \in Keys : Expire(k) /\ UNCHANGED <<name, trustVars, pluginVars, resolverVars>>

CacheSpec == CacheInit /\ [][CacheNext]_vars

\* Identity resolution as a function of the identifier.
ResolverInit ==
    /\ name = "nodejs"
    /\ dir = "absent"
    /\ PluginIdle
    /\ TrustIdle
    /\ available = << >>
    /\ CacheIdle
    /\ identifier \in Identifiers
    /\ resolved = NotResolved

\* VfoxForge::get_url, line 114
GetUrl ==
    /\ resolved = NotResolved
    /\ resolved' = vfox_to_url(identifier)
    /\ UNCHANGED <<name, identifier, trustVars, pluginVars, cacheVars>>

ResolverNext == GetUrl

ResolverSpec == ResolverInit /\ [][ResolverNext]_vars

(***************************************************************************)
(* Properties.                                                             *)
(***************************************************************************)
Events(p) == {trace[p][i] : i \in 1..Len(trace[p])}

\* process p took a step
Moved(p) ==
    <<pc[p], call[p], result[p], trace[p], refs[p], hookArgs[p]>>' #
    <<pc[p], call[p], result[p], trace[p], refs[p], hookArgs[p]>>

\* process p enters a new call in this step
Enters(p, op) == Ready(p) /\ Moved(p) /\ call'[p].op = op

\* is_trusted_plugin returns false for the plugin's resolved remote
Untrusted(n) ==
    LET t == is_trusted_plugin(n, get_repo_url(n)) IN ~t.panicked /\ ~t.ret

\* normalized candidate, as is_trusted_plugin compares it
NormalizedCandidate(r) ==
    IF normalize_remote(r).kind = "Ok" THEN normalize_remote(r).val ELSE INVALID_URL

\* normalized registry entry of a registered name
NormalizedEntry(n) == normalize_remote(DEFAULT_SHORTHANDS[n]).val

\* the candidate and the registry entry of the name both normalize without panic
Normalizes(n, r) ==
    /\ normalize_remote(r).kind # "Panic"
    /\ n \in DOMAIN DEFAULT_SHORTHANDS => normalize_remote(DEFAULT_SHORTHANDS[n]).kind # "Panic"

IsOrgOwned(r) == StartsWith(NormalizedCandidate(r), MISE_PREFIX)

C2_ResultFormula ==
    verdict.done =>
        /\ ~verdict.panicked
        /\ verdict.ret =
              (\/ ~(/\ name \in DOMAIN DEFAULT_SHORTHANDS
                    /\ NormalizedEntry(name) = NormalizedCandidate(remote))
               \/ IsOrgOwned(remote)
               \/ name \in TRUSTED_SHORTHANDS)

ParanoidCall(c) ==
    c.op = "ensure_installed" /\ ~c.force /\ ~c.yes /\ ~c.repo_url /\ c.paranoid

PromptedCall(c) ==
    c.op = "ensure_installed" /\ ~c.force /\ ~c.yes /\ ~c.repo_url /\ ~c.paranoid

\* C3: ensure_installed(force=false) on a plugin that is not installed, with
\* yes=false, no remote override, paranoid=true and an untrusted remote,
\* returns the refusal error in that very step: no prompt, no lock, no
\* install, and the directory and the lock are left as they were.
C3_ParanoidRefusal ==
    [][\A p \in Procs :
        (/\ Enters(p, "ensure_installed")
         /\ ParanoidCall(call'[p])
         /\ ~is_installed(dir)
         /\ Untrusted(name))
        => (/\ pc'[p] = "done"
            /\ result'[p] = "Refused"
            /\ trace'[p] = <<"warn">>
            /\ dir' = dir
            /\ lock' = lock)]_vars

C3_Witness ==
    \E p \in Procs :
        /\ pc[p] = "done"
        /\ ParanoidCall(call[p])
        /\ result[p] = "Refused"
        /\ Events(p) \cap {"prompt", "lock", "install"} = {}
        /\ dir = "absent"
        /\ lock = NoProc

\* what a call that went through the confirmation gate may have done so far
GateRespected(p) ==
    /\ Events(p) \cap {"lock", "install"} # {}
          => SubSeq(trace[p], 1, 3) = <<"warn", "prompt", "confirmed">>
    /\ "declined" \in Events(p)
          => /\ pc[p] = "done"
             /\ result[p] = "PluginNotInstalled"
             /\ trace[p] = <<"warn", "prompt", "declined">>
    /\ result[p] = "PluginNotInstalled" => "declined" \in Events(p)

\* C4: ensure_installed(force=false) on a plugin that is not installed, with
\* yes=false, paranoid=false, no remote override and an untrusted remote,
\* issues the prompt before any lock or install; it locks and installs only
\* after a confirmation; a decline returns PluginNotInstalled in that step
\* with no lock taken, no install run and the directory untouched.
C4_PromptGate ==
    [][\A p \in Procs :
        /\ (/\ Enters(p, "ensure_installed")
            /\ PromptedCall(call'[p])
            /\ ~is_installed(dir)
            /\ Untrusted(name))
           => (/\ pc'[p] = "prompt"
               /\ trace'[p] = <<"warn", "prompt">>
               /\ dir' = dir
               /\ lock' = lock)
        /\ (PromptedCall(call'[p]) /\ Untrusted(name)) => GateRespected(p)'
        /\ (pc[p] = "prompt" /\ result'[p] = "PluginNotInstalled")
           => (dir' = dir /\ lock' = lock /\ lock # p)]_vars

C4_Witness ==
    \E p \in Procs :
        /\ pc[p] = "done"
        /\ PromptedCall(call[p])
        /\ Untrusted(name)
        /\ result[p] = "PluginNotInstalled"
        /\ trace[p] = <<"warn", "prompt", "declined">>
        /\ dir = "absent"
        /\ lock = NoProc

InMutation(p) == pc[p] \in {"install", "un_removing"}

\* C6: at no time are two processes inside an install or a removal of the
\* same plugin directory.
C6_MutationsSerialized ==
    \A p \in Procs, q \in Procs : (InMutation(p) /\ InMutation(q)) => p = q

\* C7: a process holds the lock only while it is inside the install section of
\* ensure_installed, so the lock is released when the call returns, with
\* success or failure; and a held lock always becomes free again.
C7_LockReleased ==
    /\ [](\A p \in Procs : lock = p => (pc[p] = "install" /\ "lock" \in Events(p)))
    /\ \A p \in Procs : (lock = p) ~> (lock = NoProc)

C7_Witness ==
    \E p \in Procs :
        /\ pc[p] = "done"
        /\ call[p].op = "ensure_installed"
        /\ "install" \in Events(p)
        /\ result[p] = "InstallError"
        /\ lock = NoProc

CMoved(c) == <<cpc[c], ckey[c], cres[c]>>' # <<cpc[c], ckey[c], cres[c]>>

\* C8: for each key at most one caller runs compute; a caller waits only on a
\* computation of its own key; compute starts only when no valid entry exists
\* and none is in flight; a waiting caller never computes: it leaves the wait
\* in the step in which the computation returns, with that computation's
\* result, success or failure.
C8_Coalesced ==
    [][/\ \A k \in Keys :
            /\ Cardinality(Computing(k)') <= 1
            /\ Waiting(k)' # {} => Computing(k)' # {}
       /\ \A c \in Callers :
            /\ (cpc[c] # "computing" /\ cpc'[c] = "computing")
               => (/\ cpc[c] # "waiting"
                   /\ Computing(ckey'[c]) = {}
                   /\ ~disk[ckey'[c]].present)
            /\ (cpc[c] = "waiting" /\ CMoved(c))
               => \E l \in Computing(ckey[c]) :
                     /\ cpc'[l] = "done" /\ cpc'[c] = "done"
                     /\ cres'[l].kind \in {"Ok", "Err"}
                     /\ cres'[c] = cres'[l]]_vars

C8_Witness ==
    \E k \in Keys :
        /\ Cardinality(Computing(k)) = 1
        /\ Cardinality(Waiting(k)) = NumCallers - 1
        /\ ~disk[k].present

\* C9: when compute fails nothing is persisted and the failure is returned; a
\* later call on the key, finding no valid entry and no computation in flight,
\* invokes compute again; a call that finds a valid entry returns the stored
\* value without invoking compute.
C9_FailureNotPersisted ==
    [][\A c \in Callers :
        /\ (cpc[c] = "computing" /\ CMoved(c) /\ cres'[c].kind # "Ok")
           => (/\ cpc'[c] = "done"
               /\ cres'[c] = Failure
               /\ disk' = disk
               /\ ~disk'[ckey[c]].present)
        /\ (cpc[c] \in {"idle", "done"} /\ CMoved(c))
           => LET k == ckey'[c]
              IN  IF disk[k].present
                  THEN cpc'[c] = "done" /\ cres'[c] = Ok(disk[k].value) /\ disk' = disk
                  ELSE IF Computing(k) = {}
                       THEN cpc'[c] = "computing"
                       ELSE cpc'[c] = "waiting"]_vars

C9_Witness ==
    \E c \in Callers, d \in Callers :
        /\ c # d
        /\ cpc[c] = "done" /\ cres[c] = Failure
        /\ ckey[d] = ckey[c]
        /\ cpc[d] = "computing"
        /\ ~disk[ckey[c]].present

\* C10: update on a plugin path that is a symlink or not a git repository
\* returns success in its first step: git update is not invoked, the
\* post-plugin-update hook is not run, the directory and the lock are left
\* as they were.
C10_UpdateNoOp ==
    [][\A p \in Procs :
        (/\ Enters(p, "update")
         /\ (is_symlink(dir) \/ ~is_repo(dir)))
        => (/\ pc'[p] = "done"
            /\ result'[p] = "Ok"
            /\ Events(p)' \cap {"git", "hook"} = {}
            /\ refs'[p] = NoRefs
            /\ hookArgs'[p] = NoRefs
            /\ dir' = dir
            /\ lock' = lock)]_vars

C10_Witness ==
    \E p \in Procs :
        /\ pc[p] = "done"
        /\ call[p].op = "update"
        /\ result[p] = "Ok"
        /\ trace[p] = <<"warn">>
        /\ dir = "symlink"

SlashFree(s) == \A i \in 1..Len(s) : s[i] \notin SlashTokens

\* s is owner "/" repo with both segments non-empty and free of '/'
OwnerRepoAt(s, i) ==
    /\ 1 < i /\ i < Len(s) /\ s[i] = SLASH
    /\ SlashFree(SubSeq(s, 1, i - 1))
    /\ SlashFree(SubSeq(s, i + 1, Len(s)))

\* C12: vfox_to_url maps an identifier owner/repo (two non-empty segments
\* without '/', one '/' between them) to the URL https://github.com/owner/repo,
\* any other string that parses as a URL to that parsed URL, and fails with
\* an error carrying the original string for every other string.
C12_Resolution ==
    resolved.kind # "none" =>
        IF \E i \in 1..Len(identifier) : OwnerRepoAt(identifier, i)
        THEN \A i \in 1..Len(identifier) :
                OwnerRepoAt(identifier, i) =>
                    /\ resolved.kind = "Ok"
                    /\ resolved.url.scheme = HTTPS
                    /\ resolved.url.host = <<"github.com">>
                    /\ resolved.url.path = <<SLASH>> \o SubSeq(identifier, 1, i - 1)
                          \o <<SLASH>> \o SubSeq(identifier, i + 1, Len(identifier))
        ELSE IF UrlParse(identifier).ok
             THEN resolved.kind = "Ok" /\ resolved.url = UrlParse(identifier)
             ELSE resolved.kind = "Err" /\ resolved.msg = identifier

C12_Witness ==
    /\ identifier = <<"community", SLASH, "tool">>
    /\ resolved.kind = "Ok"
    /\ resolved.url.host = <<"github.com">>
    /\ resolved.url.path = <<SLASH, "community", SLASH, "tool">>

\* C11: uninstall on a plugin that is not installed returns success in its
\* first step: the pre-plugin-remove hook is not run, nothing is removed,
\* the directory stays absent and the lock is left as it was.
C11_UninstallNoOp ==
    [][\A p \in Procs :
        (Enters(p, "uninstall") /\ ~is_installed(dir))
        => (/\ pc'[p] = "done"
            /\ result'[p] = "Ok"
            /\ trace'[p] = << >>
            /\ dir' = "absent"
            /\ lock' = lock)]_vars

C11_Witness ==
    \E p \in Procs :
        /\ pc[p] = "done"
        /\ call[p].op = "uninstall"
        /\ result[p] = "Ok"
        /\ trace[p] = << >>
        /\ dir = "absent"

\* positions of an event in the trace of p
At(p, e) == {i \in 1..Len(trace[p]) : trace[p][i] = e}

\* C14: in uninstall, every directory removal is preceded by the invocation
\* of the pre-plugin-remove hook, and the hook is never invoked after a
\* removal; the step that starts remove_all is taken by a call whose hook
\* has run.
C14_HookBeforeRemoval ==
    [][\A p \in Procs :
        /\ call'[p].op = "uninstall"
           => /\ \A r \in At(p, "remove")' : \E h \in At(p, "hook")' : h < r
              /\ \A h \in At(p, "hook")' : \A r \in At(p, "remove")' : h < r
        /\ (pc[p] # "un_removing" /\ pc'[p] = "un_removing")
           => "hook" \in Events(p)
        /\ (call'[p].op = "uninstall" /\ dir # "absent" /\ dir' = "absent" /\ Moved(p))
           => "hook" \in Events(p)]_vars

C14_Witness ==
    \E p \in Procs :
        /\ pc[p] = "done"
        /\ call[p].op = "uninstall"
        /\ result[p] = "Ok"
        /\ trace[p] = <<"hook", "remove">>
        /\ dir = "absent"

\* C15: when the pre-plugin-remove hook of uninstall fails on an installed
\* plugin, the error is returned to the caller and the directory is removed
\* all the same.
C15_HookFailureStillRemoves ==
    \A p \in Procs :
        (pc[p] = "done" /\ call[p].op = "uninstall" /\ result[p] = "HookError")
        => "remove" \in Events(p)

\* C16: in update on a non-symlink git repository the post-plugin-update hook
\* is invoked at most once, only after git update has returned successfully,
\* with exactly the (pre, post) that git update returned; when git update
\* fails the hook is not invoked and the error is returned.
C16_HookAfterGitUpdate ==
    \A p \in Procs :
        call[p].op = "update" =>
            /\ Cardinality(At(p, "hook")) <= 1
            /\ "hook" \in Events(p)
                  => /\ trace[p] = <<"git", "hook">>
                     /\ refs[p] \in Refs \X Refs
                     /\ hookArgs[p] = refs[p]
            /\ "hook" \notin Events(p) => hookArgs[p] = NoRefs
            /\ (pc[p] = "done" /\ "git" \in Events(p) /\ refs[p] = NoRefs)
                  => (result[p] = "GitError" /\ "hook" \notin Events(p))
            /\ result[p] = "GitError" => (pc[p] = "done" /\ refs[p] = NoRefs)

C16_Witness ==
    \E p \in Procs :
        /\ pc[p] = "done"
        /\ call[p].op = "update"
        /\ result[p] = "Ok"
        /\ refs[p] = <<"sha1", "sha2">>
        /\ hookArgs[p] = <<"sha1", "sha2">>
        /\ trace[p] = <<"git", "hook">>

\* C17: a process that is at the trust gate, has emitted the warning or waits
\* on the confirmation prompt, or has not reached its install section, does
\* not hold the lock: the lock is held by no process outside install.
C17_LockOnlyAroundInstall ==
    \A p \in Procs :
        pc[p] \in {"idle", "done", "prompt", "lock"} => lock # p

C17_Witness ==
    \E p \in Procs, q \in Procs :
        /\ pc[p] = "prompt"
        /\ "warn" \in Events(p)
        /\ pc[q] = "install"
        /\ lock = q

\* the remote with a trailing "/", a trailing ".git", a trailing ".git/"
TrailingVariants(u) == {u \o <<SLASH>>, u \o <<DOTGIT>>, u \o <<DOTGIT, SLASH>>}

\* C13: for every remote u that normalizes, normalizing u, u + "/",
\* u + ".git" and u + ".git/" yields the same string.
C13_TrailingInsensitive ==
    normalize_remote(remote).kind = "Ok"
    => \A v \in TrailingVariants(remote) :
          normalize_remote(v) = normalize_remote(remote)

\* C18: every value that _list_remote_versions hands to a caller, on the miss
\* and on later hits, and every value the cache holds, is the engine's list
\* reversed: the same length, element i being the engine's element
\* Len + 1 - i, so nothing is dropped, added or duplicated.
IsReversedEngineList(v) ==
    /\ Len(v) = Len(available)
    /\ \A i \in 1..Len(v) : v[i] = available[Len(available) + 1 - i]

C18_ReversedStoredAndReturned ==
    /\ \A c \in Callers : cres[c].kind = "Ok" => IsReversedEngineList(cres[c].value)
    /\ \A k \in Keys : disk[k].present => IsReversedEngineList(disk[k].value)

C18_Witness ==
    /\ available = <<"1.0", "2.0">>
    /\ \E c \in Callers, d \in Callers :
          /\ c # d
          /\ ckey[c] = ckey[d]
          /\ cpc[c] = "done" /\ cres[c] = Ok(<<"2.0", "1.0">>)
          /\ cpc[d] = "done" /\ cres[d] = Ok(<<"2.0", "1.0">>)
          /\ disk[ckey[c]] = Entry(<<"2.0", "1.0">>)

\* C19: an ensure_installed(force=false) that has passed the trust gate and
\* obtains the lock never starts the install onto a directory that another
\* process has installed in the meantime.
C19_SecondLockerSkipsInstall ==
    [][\A p \in Procs :
        (/\ call[p].op = "ensure_installed"
         /\ ~call[p].force
         /\ pc[p] = "lock"
         /\ pc'[p] = "install")
        => ~is_installed(dir)]_vars

\* C20: every evaluation of is_trusted_plugin returns a boolean; a candidate
\* that does not normalize counts as no shorthand match, so the result is
\* true for it.
C20_NeverAborts ==
    verdict.done
    => /\ ~verdict.panicked
       /\ normalize_remote(remote).kind # "Ok" => verdict.ret

====
